---------------------------- MODULE Spec2Model ----------------------------
(***************************************************************************)
(* The fetch / pagination / loading state machine of the product catalog   *)
(* view, src/src/App.tsx (src/unnamed/part_000 is the same component with  *)
(* different styling; lines 102-133 and the render conditions are equal).  *)
(*                                                                         *)
(* The component state is the four useState cells.  Every invocation of    *)
(* the async function fetchProducts is a record of the sequence calls,     *)
(* with its own argument and its own position (pc), so that two            *)
(* invocations in flight at once are representable: that they never occur  *)
(* is a property of the guards, not of the encoding.                       *)
(*                                                                         *)
(* React semantics relied on: the passive effect of the first render runs  *)
(* before any click is dispatched, a click re-renders before the next      *)
(* click is dispatched, and the setState calls of one continuation         *)
(* (lines 115-118 and 123) are committed as one batch.                     *)
(***************************************************************************)
EXTENDS Integers, Sequences, FiniteSets, TLC

\* ------------------------------------------------------------------ bounds
\* number of fetchProducts invocations explored
MaxFetches == 4
\* longest page the Product API answers with in the model
MaxLen == 2
\* number of distinct products the Product API can answer with
NumProducts == 2

ProductIds == 1..NumProducts

\* the ordered sequences the Product API may return for one request
Pages == UNION {[1..n -> ProductIds] : n \in 0..MaxLen}

\* what awaiting fetch() and response.json() can produce (lines 108-112):
\* the promise rejects, the status is not ok, the body does not parse,
\* or the body is a sequence of products
Responses ==
    {[kind |-> "ok", data |-> d] : d \in Pages}
    \cup {[kind |-> k, data |-> <<>>] : k \in {"reject", "notOk", "badJson"}}

NoResponse == [kind |-> "pending", data |-> <<>>]

VARIABLES
    products,     \* useState<Product[]>([])
    loading,      \* useState(false)
    currentPage,  \* useState(1)
    hasMore,      \* useState(true)
    mounted,      \* the mount effect has run
    calls,        \* invocations of fetchProducts in flight, oldest first
    toasts,       \* number of message.error notifications emitted
    history,      \* log: every invocation of fetchProducts, with its outcome
    last,         \* log: the invocation that completed most recently
    lastOk        \* log: the invocation that succeeded most recently

vars == <<products, loading, currentPage, hasMore, mounted, calls, toasts,
          history, last, lastOk>>

view == <<products, loading, currentPage, hasMore>>

\* --------------------------------------------------------------- the view
\* the control offered while a request is in flight
LoadMoreOffered_WhileLoading == hasMore

\* the control offered although the last page was empty
LoadMoreOffered_PastEnd == ~loading

\* line 206: {hasMore && !loading && (<Button onClick={handleLoadMore}> ...
LoadMoreOffered == hasMore /\ ~loading

\* line 219: {!hasMore && products.length > 0 && (... All products loaded!
EndOfListShown == ~hasMore /\ Len(products) > 0

\* ------------------------------------------------------- fetchProducts
\* the page appended to the rows already shown
NextProducts_Append(old, data) == old \o data

\* line 115: setProducts(data)
NextProducts(old, data) == data

\* an empty page not treated as the end of the data
NextHasMore_Always(data) == Len(data) >= 0

\* line 117: setHasMore(data.length > 0)
NextHasMore(data) == Len(data) > 0

\* the cursor not moved by a successful fetch
NextCurrentPage_Stale(old, page) == old

\* line 118: setCurrentPage(page)
NextCurrentPage(old, page) == page

\* Load More asking for the page already shown
LoadMorePage_Same(cur) == cur

\* line 132: fetchProducts(currentPage + 1)
LoadMorePage(cur) == cur + 1

Snapshot == [products |-> products, currentPage |-> currentPage,
             hasMore |-> hasMore, toasts |-> toasts]

RemoveAt(s, i) == [j \in 1..(Len(s) - 1) |-> IF j < i THEN s[j] ELSE s[j + 1]]

\* lines 102-103: the synchronous prefix of fetchProducts(page), up to the
\* first await
fetchProducts(page, trigger) ==
    /\ Len(history) < MaxFetches
    /\ loading' = TRUE
    /\ calls' = Append(calls, [id |-> Len(history) + 1, page |-> page,
                               pc |-> "delay", resp |-> NoResponse,
                               before |-> Snapshot])
    /\ history' = Append(history, [trigger |-> trigger, page |-> page,
                                   outcome |-> "pending"])
    /\ UNCHANGED <<products, currentPage, hasMore, toasts, last, lastOk>>

\* lines 127-129: useEffect(() => { fetchProducts(1) }, [])
Mount ==
    /\ ~mounted
    /\ mounted' = TRUE
    /\ fetchProducts(1, "mount")

\* lines 131-133 behind the render condition of line 206
handleLoadMore ==
    /\ mounted
    /\ LoadMoreOffered
    /\ UNCHANGED mounted
    /\ fetchProducts(LoadMorePage(currentPage), "loadMore")

\* line 106 resolves and line 108 issues the request for calls[i].page
DelayElapsed(i) ==
    /\ i \in 1..Len(calls)
    /\ calls[i].pc = "delay"
    /\ calls' = [calls EXCEPT ![i].pc = "request"]
    /\ UNCHANGED <<products, loading, currentPage, hasMore, mounted, toasts,
                   history, last, lastOk>>

\* the Product API (or the transport) answers the request of calls[i]
ApiRespond(i, r) ==
    /\ i \in 1..Len(calls)
    /\ calls[i].pc = "request"
    /\ calls' = [calls EXCEPT ![i].pc = "response", ![i].resp = r]
    /\ UNCHANGED <<products, loading, currentPage, hasMore, mounted, toasts,
                   history, last, lastOk>>

Completed(i, outcome) ==
    /\ history' = [history EXCEPT ![calls[i].id].outcome = outcome]
    /\ last' = [id |-> calls[i].id, page |-> calls[i].page,
                outcome |-> outcome, data |-> calls[i].resp.data,
                before |-> calls[i].before]
    /\ calls' = RemoveAt(calls, i)

\* the rows cleared when a fetch fails
CatchBlock_ClearsProducts ==
    /\ toasts' = toasts + 1
    /\ products' = <<>>
    /\ UNCHANGED <<currentPage, hasMore>>

\* a failure treated as the end of the data
CatchBlock_GivesUp ==
    /\ toasts' = toasts + 1
    /\ hasMore' = FALSE
    /\ UNCHANGED <<products, currentPage>>

\* lines 119-121: catch (error) { console.error(...); message.error(...) }
CatchBlock ==
    /\ toasts' = toasts + 1
    /\ UNCHANGED <<products, currentPage, hasMore>>

\* loading left as it is when the function returns
FinallyBlock_Missing == UNCHANGED loading

\* lines 122-124: finally { setLoading(false) }
FinallyBlock == loading' = FALSE

\* lines 109-118 and 122-124: response.ok, the body parsed
FetchSuccess(i) ==
    /\ i \in 1..Len(calls)
    /\ calls[i].pc = "response"
    /\ calls[i].resp.kind = "ok"
    /\ products' = NextProducts(products, calls[i].resp.data)
    /\ hasMore' = NextHasMore(calls[i].resp.data)
    /\ currentPage' = NextCurrentPage(currentPage, calls[i].page)
    /\ FinallyBlock
    /\ lastOk' = [seen |-> TRUE, page |-> calls[i].page,
                  data |-> calls[i].resp.data]
    /\ Completed(i, "success")
    /\ UNCHANGED <<mounted, toasts>>

\* lines 108-112 throw or reject, then lines 119-124
FetchFailure(i) ==
    /\ i \in 1..Len(calls)
    /\ calls[i].pc = "response"
    /\ calls[i].resp.kind # "ok"
    /\ CatchBlock
    /\ FinallyBlock
    /\ Completed(i, "failure")
    /\ UNCHANGED <<mounted, lastOk>>

\* ------------------------------------------------------- specification
Init ==
    /\ products = <<>>
    /\ loading = FALSE
    /\ currentPage = 1
    /\ hasMore = TRUE
    /\ mounted = FALSE
    /\ calls = <<>>
    /\ toasts = 0
    /\ history = <<>>
    /\ last = [id |-> 0, page |-> 0, outcome |-> "none", data |-> <<>>,
               before |-> [products |-> <<>>, currentPage |-> 1,
                           hasMore |-> TRUE, toasts |-> 0]]
    /\ lastOk = [seen |-> FALSE, page |-> 0, data |-> <<>>]

Next ==
    \/ Mount
    \/ handleLoadMore
    \/ \E i \in 1..MaxFetches : DelayElapsed(i)
    \/ \E i \in 1..MaxFetches : \E r \in Responses : ApiRespond(i, r)
    \/ \E i \in 1..MaxFetches : FetchSuccess(i)
    \/ \E i \in 1..MaxFetches : FetchFailure(i)

Spec == Init /\ [][Next]_vars

\* the timer of line 106 fires, the Product API answers every request, and
\* the event loop runs every continuation that is ready
LiveSpec ==
    /\ Spec
    /\ \A i \in 1..MaxFetches :
         /\ WF_vars(DelayElapsed(i))
         /\ WF_vars(\E r \in Responses : ApiRespond(i, r))
         /\ WF_vars(FetchSuccess(i))
         /\ WF_vars(FetchFailure(i))

\* ------------------------------------------------------------ properties
Latest == history[Len(history)]

\* a step that starts an invocation of fetchProducts
Started == Len(history') = Len(history) + 1

\* a step that completes one
Finished == last'.id # last.id

\* C1: after a fetch completes successfully, products is exactly the
\* sequence the Product API returned for that request, whatever products
\* held before
C1_ProductsAreThePageReturned ==
    last.outcome = "success" => products = last.data

\* a Load More page replaced a different, non-empty page after a failure
C1_Witness ==
    /\ last.outcome = "success"
    /\ last.data # <<>>
    /\ last.before.products # <<>>
    /\ last.before.products # last.data
    /\ toasts > 0

\* C2: hasMore is false exactly when some fetch has succeeded and the most
\* recent successful fetch returned an empty sequence; a failed fetch
\* leaves hasMore as it was when the fetch started
C2_HasMoreIffLastPageNonEmpty ==
    /\ ~hasMore <=> (lastOk.seen /\ lastOk.data = <<>>)
    /\ last.outcome = "failure" => hasMore = last.before.hasMore

\* a failure after a non-empty success leaves hasMore true
C2_Witness ==
    /\ last.outcome = "failure"
    /\ lastOk.seen
    /\ lastOk.data # <<>>
    /\ hasMore

\* C3: a Load More fetch that succeeds with an empty page leaves products
\* empty, hasMore false, the Load More control not offered and the
\* end-of-list message displayed
C3_EndOfListAfterEmptyPage ==
    (/\ last.outcome = "success"
     /\ last.data = <<>>
     /\ history[last.id].trigger = "loadMore")
    => (/\ products = <<>>
        /\ ~hasMore
        /\ ~LoadMoreOffered
        /\ EndOfListShown)

\* C4: the number of fetches in flight is 1 while loading is true and 0
\* while loading is false
C4_OneInFlightIffLoading ==
    Len(calls) = IF loading THEN 1 ELSE 0

\* a Load More fetch is in flight, after an earlier fetch completed
C4_Witness ==
    /\ loading
    /\ Len(calls) = 1
    /\ Len(history) >= 2
    /\ Latest.trigger = "loadMore"

\* C5: a failed fetch leaves products, currentPage and hasMore as they
\* were when it started, clears loading and emits exactly one error
\* notification; a successful fetch emits none
C5_FailureLeavesViewAndNotifiesOnce ==
    /\ last.outcome = "failure" =>
          /\ products = last.before.products
          /\ currentPage = last.before.currentPage
          /\ hasMore = last.before.hasMore
          /\ toasts = last.before.toasts + 1
          /\ calls = <<>> => ~loading
    /\ last.outcome = "success" => toasts = last.before.toasts

\* a Load More fetch failed while a non-empty page was displayed
C5_Witness ==
    /\ last.outcome = "failure"
    /\ calls = <<>>
    /\ products # <<>>
    /\ currentPage >= 2

\* C6: currentPage is positive and is the page of the most recent
\* successful fetch (1 if none); Load More fetches currentPage + 1;
\* currentPage never decreases and a successful Load More adds exactly 1
C6_CurrentPageIsLastSuccessfulPage ==
    /\ [](/\ currentPage >= 1
          /\ currentPage = IF lastOk.seen THEN lastOk.page ELSE 1)
    /\ [][(Started /\ history'[Len(history')].trigger = "loadMore")
             => history'[Len(history')].page = currentPage + 1]_vars
    /\ [][currentPage' >= currentPage]_vars
    /\ [][(/\ Finished
           /\ last'.outcome = "success"
           /\ history[last'.id].trigger = "loadMore")
             => currentPage' = currentPage + 1]_vars

\* two Load More fetches succeeded and one fetch failed
C6_Witness ==
    /\ currentPage >= 3
    /\ toasts >= 1
    /\ last.outcome = "success"

\* C7: in the state a failed fetch results in, the Load More control is
\* offered, for the mount fetch as for a Load More fetch; every fetch is
\* started while hasMore is true
C7_LoadMoreOfferedAfterFailure ==
    /\ [][(Finished /\ last'.outcome = "failure") => LoadMoreOffered']_vars
    /\ [](\A i \in 1..Len(calls) : calls[i].before.hasMore)

\* the mount fetch failed and the control is offered
C7_Witness ==
    /\ last.outcome = "failure"
    /\ last.id = 1
    /\ LoadMoreOffered

\* C8: under LiveSpec, loading = true leads to loading = false
C8_LoadingEventuallyCleared == loading ~> ~loading

\* fetches have completed on the failure path and on the success path
C8_Witness ==
    /\ ~loading
    /\ last.outcome = "failure"
    /\ lastOk.seen

\* C9: page 1 is requested exactly once, by the mount fetch; every Load
\* More request is for a page >= 2; after a failed mount fetch currentPage
\* is still 1 and the next request is for page 2; after a failed Load
\* More the next request is for the same page
C9_PageOneOnlyByMount ==
    /\ mounted <=> Len(history) >= 1
    /\ \A k \in 1..Len(history) :
         /\ history[k].trigger = "mount" <=> k = 1
         /\ history[k].page = 1 <=> k = 1
         /\ history[k].trigger = "loadMore" => history[k].page >= 2
    /\ (Len(history) >= 1 /\ history[1].outcome = "failure" /\ ~lastOk.seen)
         => currentPage = 1
    /\ (Len(history) >= 2 /\ history[1].outcome = "failure")
         => history[2].page = 2
    /\ \A k \in 2..(Len(history) - 1) :
         history[k].outcome = "failure" => history[k + 1].page = history[k].page

\* the mount fetch failed, Load More failed, Load More was clicked again
C9_Witness ==
    /\ Len(history) >= 3
    /\ history[1].outcome = "failure"
    /\ history[2].outcome = "failure"

\* C10: once hasMore is false no fetch is started any more, and hasMore
\* stays false, products empty, currentPage at the page that returned
\* empty and loading false
C10_NoMoreIsAbsorbing ==
    /\ [](~hasMore => (/\ calls = <<>>
                       /\ ~loading
                       /\ ~LoadMoreOffered
                       /\ products = <<>>
                       /\ lastOk.data = <<>>
                       /\ currentPage = lastOk.page))
    /\ [][~hasMore => (~Started /\ view' = view)]_vars

\* a Load More fetch returned an empty page
C10_Witness ==
    /\ ~hasMore
    /\ currentPage >= 2
    /\ last.outcome = "success"

=============================================================================
